---- MODULE Spec2Model ----
(***************************************************************************)
(* A model of wcsaxes/utils.py: the tick-step selectors                    *)
(* (select_step_degree, select_step_hour, select_step_scalar), the frame   *)
(* identifier registry with get_coordinate_frame, and                      *)
(* coord_type_from_ctype.                                                  *)
(*                                                                         *)
(* Numbers are exact: a positive real is a record [n, d, e] standing for   *)
(* (n / d) * 10^e, and every comparison is done by cross multiplication.   *)
(* Floating-point rounding of numpy is outside the model.                  *)
(***************************************************************************)
EXTENDS Integers, Sequences, FiniteSets, TLC

VARIABLES
    dv,                 \* the Quantity handed to a step selector
    fn,                 \* which step selector ran last ("none" before any)
    out,                \* what that call produced
    FRAME_IDENTIFIERS,  \* the module-level registry list
    history,            \* every registry operation so far, oldest first
    frame_call,         \* the last get_coordinate_frame call and its outcome
    ctype,              \* the string handed to coord_type_from_ctype
    ctype_out           \* what coord_type_from_ctype returned

vars == <<dv, fn, out, FRAME_IDENTIFIERS, history, frame_call, ctype, ctype_out>>

stepVars == <<dv, fn, out>>
frameVars == <<FRAME_IDENTIFIERS, history, frame_call>>
ctypeVars == <<ctype, ctype_out>>

----------------------------------------------------------------------------
(* Bounds of the model *)

\* mantissas of the input values: 1 .. MaxMant
MaxMant == 56
\* decimal exponents of the input values: -MaxNegExp .. MaxExp
MaxNegExp == 4
MaxExp == 1
\* registry operations in one run
MaxOps == 3
\* length of the ctype strings handed to coord_type_from_ctype, before the
\* projection suffix
MaxLen == 4

----------------------------------------------------------------------------
(* Exact arithmetic on positive reals (n / d) * 10^e *)

RECURSIVE Pow10(_)
Pow10(k) == IF k = 0 THEN 1 ELSE 10 * Pow10(k - 1)

RECURSIVE GCD(_, _)
GCD(a, b) == IF b = 0 THEN a ELSE GCD(b, a % b)

RECURSIVE TrailingZeros(_)
TrailingZeros(k) == IF k > 0 /\ k % 10 = 0 THEN 1 + TrailingZeros(k \div 10) ELSE 0

\* the real number (n / d) * 10^e, with n / d in lowest terms and the powers of
\* ten of n and d moved into e
Real(n, d, e) ==
    LET g  == GCD(n, d)
        n1 == n \div g
        d1 == d \div g
        zn == TrailingZeros(n1)
        zd == TrailingZeros(d1)
    IN  [n |-> n1 \div Pow10(zn), d |-> d1 \div Pow10(zd), e |-> e + zn - zd]

\* p * 10^k <= q  for naturals p, q and k >= 0
ScaledLe(p, k, q) ==
    IF p = 0 THEN TRUE
    ELSE IF k > 9 THEN FALSE
    ELSE p <= q \div Pow10(k)

\* p <= q * 10^k  for naturals p, q and k >= 0
LeScaled(p, q, k) ==
    IF q = 0 THEN p = 0
    ELSE IF k > 9 THEN TRUE
    ELSE (p + Pow10(k) - 1) \div Pow10(k) <= q

\* a <= b
RLe(a, b) ==
    LET p == a.n * b.d
        q == b.n * a.d
    IN  IF a.e >= b.e THEN ScaledLe(p, a.e - b.e, q)
                      ELSE LeScaled(p, q, b.e - a.e)

RLt(a, b) == ~RLe(b, a)

REq(a, b) == RLe(a, b) /\ RLe(b, a)

RMul(a, b) == Real(a.n * b.n, a.d * b.d, a.e + b.e)

RDiv(a, b) == Real(a.n * b.d, a.d * b.n, a.e - b.e)

\* floor(log10(n / d)) for n < d
RECURSIVE NegDecade(_, _)
NegDecade(n, d) == IF n >= d THEN 0 ELSE NegDecade(10 * n, d) - 1

\* floor(log10(k)) for a natural k >= 1
RECURSIVE Decade(_)
Decade(k) == IF k < 10 THEN 0 ELSE 1 + Decade(k \div 10)

\* np.floor(np.log10(x))
FloorLog10(x) ==
    x.e + (IF x.n >= x.d THEN Decade(x.n \div x.d) ELSE NegDecade(x.n, x.d))

\* |log10(x) - log10(a)| <= |log10(x) - log10(b)|, decided exactly: the
\* distance of x to a in log space is log10(max(x/a, a/x))
LogDistLe(x, a, b) ==
    LET xa == RLe(a, x)
        xb == RLe(b, x)
        xx == RMul(x, x)
        ab == RMul(a, b)
    IN  CASE xa /\ xb       -> RLe(b, a)
          [] xa /\ ~xb      -> RLe(xx, ab)
          [] ~xa /\ xb      -> RLe(ab, xx)
          [] ~xa /\ ~xb     -> RLe(a, b)

LogDistLt(x, a, b) == ~LogDistLe(x, b, a)

----------------------------------------------------------------------------
(* Quantities: a value with a unit (astropy.units) *)

Units == {"arcsec", "arcmin", "degree", "hourangle"}

\* the size of a unit in degrees; "arcsec15" is the scaled unit 15 arcsec that
\* dv.to(15. * u.arcsec) converts to
UnitInDegrees(u) ==
    CASE u = "arcsec"    -> Real(1, 3600, 0)
      [] u = "arcmin"    -> Real(1, 60, 0)
      [] u = "degree"    -> Real(1, 1, 0)
      [] u = "hourangle" -> Real(15, 1, 0)
      [] u = "arcsec15"  -> Real(15, 3600, 0)

Quantity(x, u) == [value |-> x, unit |-> u]

\* q.to(u)
To(q, u) ==
    Quantity(RDiv(RMul(q.value, UnitInDegrees(q.unit)), UnitInDegrees(u)), u)

\* a >= b, where the code compares with >
QGe(a, b) == RLe(To(b, a.unit).value, a.value)

\* a > b: astropy converts b to the unit of a and compares the values
QGt(a, b) == RLt(To(b, a.unit).value, a.value)

\* x * q for a number x and a Quantity q
Times(x, q) == Quantity(RMul(x, q.value), q.unit)

\* n copies of x: [x] * n
Repeat(x, n) == [i \in 1..n |-> x]

\* np.array(a) / k
ArrayDiv(a, k) == [i \in 1..Len(a) |-> RDiv(a[i], Real(k, 1, 0))]

\* the binary search with side='right'
RECURSIVE BinSearchRight(_, _, _, _)
BinSearchRight(a, v, lo, hi) ==
    IF lo < hi
    THEN LET mid == lo + ((hi - lo) \div 2)
         IN  IF RLe(a[mid + 1], v)
             THEN BinSearchRight(a, v, mid + 1, hi)
             ELSE BinSearchRight(a, v, lo, mid)
    ELSE lo

\* numpy's binary search with side='left' on a[lo .. hi-1] (0-based)
RECURSIVE BinSearchLeft(_, _, _, _)
BinSearchLeft(a, v, lo, hi) ==
    IF lo < hi
    THEN LET mid == lo + ((hi - lo) \div 2)
         IN  IF RLt(a[mid + 1], v)
             THEN BinSearchLeft(a, v, mid + 1, hi)
             ELSE BinSearchLeft(a, v, lo, mid)
    ELSE lo

\* a.searchsorted(v): a 0-based index in 0 .. len(a)
searchsorted(a, v) == BinSearchLeft(a, v, 0, Len(a))

----------------------------------------------------------------------------
(* select_step_scalar *)

\* the list without its last entry
scalar_steps_without_10 == <<1, 2, 5>>

\* the list [1, 2, 5, 10] whose log10 is the array steps
scalar_steps == <<1, 2, 5, 10>>

\* 10. ** (base + steps[i])
ScalarCandidate(base, i) == Real(scalar_steps[i], 1, base)

\* np.argmin(np.abs(frac - steps)): the first index of the least distance
\* (1-based here)
ScalarArgmin(x, base) ==
    CHOOSE i \in 1..Len(scalar_steps) :
        /\ \A j \in 1..Len(scalar_steps) :
               LogDistLe(x, ScalarCandidate(base, i), ScalarCandidate(base, j))
        /\ \A j \in 1..(i - 1) :
               LogDistLt(x, ScalarCandidate(base, i), ScalarCandidate(base, j))

select_step_scalar(x) ==
    LET base == FloorLog10(x)
        imin == ScalarArgmin(x, base)
    IN  ScalarCandidate(base, imin)

----------------------------------------------------------------------------
(* The outcome of a call of a step selector *)

NoQuantity == Quantity(Real(1, 1, 0), "none")

Returned(branch, q) == [raised |-> "none", branch |-> branch, step |-> q]

IndexError(branch) == [raised |-> "IndexError", branch |-> branch, step |-> NoQuantity]

\* steps[n] * units[n] for the 0-based n that searchsorted returned
TableRow(steps, units, n) ==
    IF n < Len(steps) /\ n < Len(units)
    THEN Returned("table", Times(Real(steps[n + 1], 1, 0), units[n + 1]))
    ELSE IndexError("table")

----------------------------------------------------------------------------
(* select_step_degree *)

R(n, e) == Real(n, 1, e)

degree_limits_ ==
    <<R(15, -1), R(3, 0), R(7, 0), R(13, 0), R(20, 0), R(40, 0), R(70, 0),
      R(120, 0), R(270, 0), R(520, 0)>>
degree_steps_ == <<1, 2, 5, 10, 15, 30, 45, 90, 180, 360>>

degree_minsec_limits_ ==
    <<R(15, -1), R(25, -1), R(35, -1), R(8, 0), R(11, 0), R(18, 0), R(25, 0),
      R(45, 0)>>
degree_minsec_steps_ == <<1, 2, 3, 5, 10, 15, 20, 30>>

degree_minute_limits_ == ArrayDiv(degree_minsec_limits_, 60)
degree_second_limits_ == ArrayDiv(degree_minsec_limits_, 3600)

degree_limits ==
    degree_second_limits_ \o degree_minute_limits_ \o degree_limits_

\* the three step lists concatenated in the wrong order
degree_steps_degrees_first ==
    degree_steps_ \o degree_minsec_steps_ \o degree_minsec_steps_

degree_steps == degree_minsec_steps_ \o degree_minsec_steps_ \o degree_steps_

degree_units ==
    Repeat(Quantity(R(1, 0), "arcsec"), Len(degree_second_limits_))
    \o Repeat(Quantity(R(1, 0), "arcmin"), Len(degree_minute_limits_))
    \o Repeat(Quantity(R(1, 0), "degree"), Len(degree_steps_))

\* the threshold 1. * u.arcsec
degree_threshold == Quantity(R(1, 0), "arcsec")

select_step_degree(q) ==
    IF QGt(q, degree_threshold)
    THEN LET n == searchsorted(degree_limits, To(q, "degree").value)
         IN  TableRow(degree_steps, degree_units, n)
    ELSE Returned("scalar",
                  Times(select_step_scalar(To(q, "arcsec").value),
                        Quantity(R(1, 0), "arcsec")))

----------------------------------------------------------------------------
(* select_step_hour *)

hour_limits_ ==
    <<R(15, -1), R(25, -1), R(35, -1), R(5, 0), R(7, 0), R(10, 0), R(15, 0),
      R(21, 0), R(36, 0)>>
hour_steps_ == <<1, 2, 3, 4, 6, 8, 12, 18, 24>>

hour_minsec_limits_ ==
    <<R(15, -1), R(25, -1), R(35, -1), R(45, -1), R(55, -1), R(8, 0),
      R(11, 0), R(14, 0), R(18, 0), R(25, 0), R(45, 0)>>
hour_minsec_steps_ == <<1, 2, 3, 4, 5, 6, 10, 12, 15, 20, 30>>

hour_minute_limits_ == ArrayDiv(hour_minsec_limits_, 60)
hour_second_limits_ == ArrayDiv(hour_minsec_limits_, 3600)

hour_limits == hour_second_limits_ \o hour_minute_limits_ \o hour_limits_

hour_steps == hour_minsec_steps_ \o hour_minsec_steps_ \o hour_steps_

\* the unit list with the minute rows before the second rows
hour_units_minutes_first ==
    Repeat(Quantity(R(15, 0), "arcmin"), Len(hour_minute_limits_))
    \o Repeat(Quantity(R(15, 0), "arcsec"), Len(hour_second_limits_))
    \o Repeat(Quantity(R(1, 0), "hourangle"), Len(hour_steps_))

hour_units ==
    Repeat(Quantity(R(15, 0), "arcsec"), Len(hour_second_limits_))
    \o Repeat(Quantity(R(15, 0), "arcmin"), Len(hour_minute_limits_))
    \o Repeat(Quantity(R(1, 0), "hourangle"), Len(hour_steps_))

\* the threshold 15. * u.arcsec
hour_threshold == Quantity(R(15, 0), "arcsec")

select_step_hour(q) ==
    IF QGt(q, hour_threshold)
    THEN LET n == searchsorted(hour_limits, To(q, "hourangle").value)
         IN  TableRow(hour_steps, hour_units, n)
    ELSE Returned("scalar",
                  Times(select_step_scalar(To(q, "arcsec15").value),
                        Quantity(R(15, 0), "arcsec")))

----------------------------------------------------------------------------
(* The step selectors as a state machine: an input, then calls on it *)

Mantissas == 1..MaxMant
Exponents == (0 - MaxNegExp)..MaxExp

Inputs == {Quantity(R(m, e), u) : m \in Mantissas, e \in Exponents, u \in Units}

NoOutcome == [raised |-> "none", branch |-> "none", step |-> NoQuantity]

NoFrameCall ==
    [op |-> "none", wcs |-> <<>>, identifiers |-> <<>>, at |-> 0,
     class |-> "None", raised |-> "none", message |-> <<>>, called |-> <<>>]

IdleFrames ==
    /\ FRAME_IDENTIFIERS = <<>>
    /\ history = <<>>
    /\ frame_call = NoFrameCall

NoCoordType == [type |-> "none", wrap |-> "None"]

IdleCtype ==
    /\ ctype = <<>>
    /\ ctype_out = NoCoordType

IdleSteps ==
    /\ dv = NoQuantity
    /\ fn = "none"
    /\ out = NoOutcome

InitSteps ==
    /\ dv \in Inputs
    /\ fn = "none"
    /\ out = NoOutcome
    /\ IdleFrames
    /\ IdleCtype

CallDegree ==
    /\ fn' = "degree"
    /\ out' = select_step_degree(dv)
    /\ UNCHANGED <<dv, frameVars, ctypeVars>>

CallHour ==
    /\ fn' = "hour"
    /\ out' = select_step_hour(dv)
    /\ UNCHANGED <<dv, frameVars, ctypeVars>>

\* select_step_scalar takes a bare number: the value of dv
CallScalar ==
    /\ fn' = "scalar"
    /\ out' = Returned("scalar", Quantity(select_step_scalar(dv.value), "none"))
    /\ UNCHANGED <<dv, frameVars, ctypeVars>>

NextSteps == CallDegree \/ CallHour \/ CallScalar

SpecSteps == InitSteps /\ [][NextSteps]_vars

----------------------------------------------------------------------------
(* Properties of the step selectors *)

\* arcseconds per unit, for stating the properties in one unit
ArcsecPer(u) ==
    CASE u = "arcsec"    -> R(1, 0)
      [] u = "arcmin"    -> R(60, 0)
      [] u = "degree"    -> R(3600, 0)
      [] u = "hourangle" -> R(54000, 0)

InArcsec(q) == RMul(q.value, ArcsecPer(q.unit))
InDegrees(q) == RDiv(InArcsec(q), R(3600, 0))
InHours(q) == RDiv(InArcsec(q), R(54000, 0))

\* two quantities of the same unit and value
QSame(a, b) == a.unit = b.unit /\ REq(a.value, b.value)

\* a <= b as angles
AngleLe(a, b) == RLe(InArcsec(a), InArcsec(b))

\* the values 1, 2, 5 times 10^k over the decades around the inputs
NiceValues ==
    {R(c, k) : c \in {1, 2, 5}, k \in (0 - MaxNegExp - 2)..(MaxExp + 3)}

\* C4: for every positive dv, select_step_scalar(dv) is 1, 2 or 5 times a power
\* of ten, and every other such value is strictly farther from dv in log10
\* space; select_step_scalar(0.0012) is 0.001.
C4_ScalarNearestNice ==
    fn = "scalar" =>
        LET r == out.step.value
        IN  /\ out.raised = "none"
            /\ \E c \in NiceValues : REq(r, c)
            /\ \A c \in NiceValues : ~REq(c, r) => LogDistLt(dv.value, r, c)
            /\ REq(dv.value, R(12, -4)) => REq(r, R(1, -3))

C4_Witness ==
    /\ fn = "scalar"
    /\ REq(dv.value, R(12, -4))
    /\ REq(out.step.value, R(1, -3))

\* the table row i (1-based) as a quantity
Row(steps, units, i) == Times(R(steps[i], 0), units[i])

\* the value searched for in the table of the selector that ran
Searched == IF fn = "degree" THEN InDegrees(dv) ELSE InHours(dv)
Limits == IF fn = "degree" THEN degree_limits ELSE hour_limits
Steps == IF fn = "degree" THEN degree_steps ELSE hour_steps
RowUnits == IF fn = "degree" THEN degree_units ELSE hour_units

\* C5 as stated: a dv equal to breakpoint i resolves to the row above it,
\* row i + 1.
C5_BreakpointTakesNextRow ==
    fn \in {"degree", "hour"} =>
        \A i \in 1..(Len(Limits) - 1) :
            REq(Searched, Limits[i]) =>
                /\ out.raised = "none"
                /\ QSame(out.step, Row(Steps, RowUnits, i + 1))

\* C5 amended: a dv equal to breakpoint i resolves to index i itself: the
\* returned step and unit are those of row i, the bucket that ends at the
\* breakpoint.
C5_BreakpointTakesOwnRow ==
    fn \in {"degree", "hour"} =>
        \A i \in 1..Len(Limits) :
            REq(Searched, Limits[i]) =>
                /\ out.raised = "none"
                /\ out.branch = "table"
                /\ QSame(out.step, Row(Steps, RowUnits, i))

\* 90 arcsec is the breakpoint 1.5 arcmin; its row is 1 arcmin, not 2 arcmin
C5_Witness ==
    /\ fn = "degree"
    /\ QSame(dv, Quantity(R(9, 1), "arcsec"))
    /\ QSame(out.step, Quantity(R(1, 0), "arcmin"))

StrictlyAscending(a) == \A i \in 1..(Len(a) - 1) : RLt(a[i], a[i + 1])

\* the row the tables of the source give for the 1-based bucket n
ExpectedDegreeRow(n) ==
    LET k == Len(degree_minsec_steps_)
    IN  IF n <= k THEN Quantity(R(degree_minsec_steps_[n], 0), "arcsec")
        ELSE IF n <= 2 * k THEN Quantity(R(degree_minsec_steps_[n - k], 0), "arcmin")
        ELSE Quantity(R(degree_steps_[n - 2 * k], 0), "degree")

ExpectedHourRow(n) ==
    LET k == Len(hour_minsec_steps_)
    IN  IF n <= k THEN Quantity(R(15 * hour_minsec_steps_[n], 0), "arcsec")
        ELSE IF n <= 2 * k THEN Quantity(R(15 * hour_minsec_steps_[n - k], 0), "arcmin")
        ELSE Quantity(R(hour_steps_[n - 2 * k], 0), "hourangle")

ExpectedRow(n) == IF fn = "degree" THEN ExpectedDegreeRow(n) ELSE ExpectedHourRow(n)

AboveThreshold ==
    IF fn = "degree" THEN RLt(R(1, 0), InArcsec(dv)) ELSE RLt(R(15, 0), InArcsec(dv))

\* C6: both concatenated breakpoint arrays are strictly ascending with one
\* row per breakpoint, and a dv above the threshold that lies strictly
\* between breakpoints n-1 and n (or below the first) gets row n.
C6_BucketRow ==
    /\ StrictlyAscending(degree_limits)
    /\ StrictlyAscending(hour_limits)
    /\ Len(degree_limits) = Len(degree_steps) /\ Len(degree_steps) = Len(degree_units)
    /\ Len(hour_limits) = Len(hour_steps) /\ Len(hour_steps) = Len(hour_units)
    /\ fn \in {"degree", "hour"} /\ AboveThreshold =>
           \A n \in 1..Len(Limits) :
               /\ n = 1 \/ RLt(Limits[n - 1], Searched)
               /\ RLt(Searched, Limits[n])
               => /\ out.raised = "none"
                  /\ QSame(out.step, ExpectedRow(n))

\* 5 arcmin lies between the breakpoints 3.5 and 8 arcmin: row 5 arcmin
C6_Witness ==
    /\ fn = "degree"
    /\ QSame(dv, Quantity(R(5, 0), "arcmin"))
    /\ QSame(out.step, Quantity(R(5, 0), "arcmin"))

\* C7: at or below the threshold (1 arcsec, 15 arcsec) the selectors return
\* the scalar rule applied to dv in arcsec (in units of 15 arcsec); above it
\* they take the table branch; 0.5 arcsec takes the scalar branch.
C7_ScalarBelowThreshold ==
    /\ fn = "degree" =>
           IF RLe(InArcsec(dv), R(1, 0))
           THEN /\ out.raised = "none"
                /\ out.branch = "scalar"
                /\ QSame(out.step,
                         Quantity(select_step_scalar(InArcsec(dv)), "arcsec"))
           ELSE out.branch = "table"
    /\ fn = "hour" =>
           IF RLe(InArcsec(dv), R(15, 0))
           THEN /\ out.raised = "none"
                /\ out.branch = "scalar"
                /\ QSame(out.step,
                         Quantity(RMul(select_step_scalar(RDiv(InArcsec(dv), R(15, 0))),
                                       R(15, 0)),
                                  "arcsec"))
           ELSE out.branch = "table"
    /\ fn = "degree" /\ QSame(dv, Quantity(R(5, -1), "arcsec")) =>
           out.branch = "scalar"

\* a call exactly at the threshold of select_step_degree
C7_Witness ==
    /\ fn = "degree"
    /\ REq(InArcsec(dv), R(1, 0))
    /\ out.branch = "scalar"
    /\ QSame(out.step, Quantity(R(1, 0), "arcsec"))

\* C9: for every dv > 0 the step selectors return a step and do not raise.
C9_StepSelectorsTotal ==
    fn \in {"degree", "hour"} => out.raised = "none"

\* the inputs in a fixed order, for tabulating the selectors
UnitSeq == <<"arcsec", "arcmin", "degree", "hourangle">>
NumExponents == MaxNegExp + MaxExp + 1
NumInputs == MaxMant * NumExponents * Len(UnitSeq)
InputAt(i) ==
    LET j == i - 1
        m == (j % MaxMant) + 1
        r == j \div MaxMant
        e == (r % NumExponents) - MaxNegExp
        u == UnitSeq[(r \div NumExponents) + 1]
    IN  Quantity(R(m, e), u)

\* an outcome with its step as an angle in arcsec
AsAngle(o) ==
    [raised |-> o.raised,
     branch |-> o.branch,
     angle  |-> IF o.raised = "none" THEN InArcsec(o.step) ELSE R(1, 0)]

\* every input as an angle, and its outcome under each selector, computed once
InputAngles == <<>> @@ [i \in 1..NumInputs |-> InArcsec(InputAt(i))]
DegreeOutcomes == <<>> @@ [i \in 1..NumInputs |-> AsAngle(select_step_degree(InputAt(i)))]
HourOutcomes == <<>> @@ [i \in 1..NumInputs |-> AsAngle(select_step_hour(InputAt(i)))]

\* the step of the call is at most the step of every larger input that returns
MonotoneAgainst(outcomes) ==
    LET a == InArcsec(dv)
        s == InArcsec(out.step)
    IN  \A i \in 1..NumInputs :
            RLe(a, InputAngles[i]) /\ outcomes[i].raised = "none"
                => RLe(s, outcomes[i].angle)

\* C10: for dv1 <= dv2 for which both calls return, the step of dv1 is at
\* most the step of dv2 as an angle, for both selectors.
C10_StepMonotone ==
    /\ fn = "degree" /\ out.raised = "none" => MonotoneAgainst(DegreeOutcomes)
    /\ fn = "hour" /\ out.raised = "none" => MonotoneAgainst(HourOutcomes)

\* a call below the threshold of select_step_hour, compared with the table
\* rows above it
C10_Witness ==
    /\ fn = "hour"
    /\ QSame(dv, Quantity(R(14, 0), "arcsec"))
    /\ QSame(out.step, Quantity(R(15, 0), "arcsec"))
    /\ \E i \in 1..NumInputs :
           /\ RLe(InArcsec(dv), InputAngles[i])
           /\ HourOutcomes[i].branch = "table"
           /\ HourOutcomes[i].raised = "none"

----------------------------------------------------------------------------
(* Strings are sequences of characters *)

Min(a, b) == IF a <= b THEN a ELSE b

\* s[a:b] for 0 <= a <= b: Python clamps the slice to the string
Slice(s, a, b) == SubSeq(s, a + 1, Min(b, Len(s)))

----------------------------------------------------------------------------
(* The frame identifier registry and get_coordinate_frame *)

\* the ctype strings of the WCS objects
RA_TAN   == <<"R", "A", "-", "-", "-", "T", "A", "N">>
DEC_TAN  == <<"D", "E", "C", "-", "-", "T", "A", "N">>
DEC_SIN  == <<"D", "E", "C", "-", "-", "S", "I", "N">>
GLON_CAR == <<"G", "L", "O", "N", "-", "C", "A", "R">>
GLAT_CAR == <<"G", "L", "A", "T", "-", "C", "A", "R">>
HPLN_TAN == <<"H", "P", "L", "N", "-", "T", "A", "N">>
HPLT_TAN == <<"H", "P", "L", "T", "-", "T", "A", "N">>
RA_BARE  == <<"R", "A", "-", "-">>
RA_SHORT == <<"R", "A", "-">>

CTypes ==
    {RA_TAN, DEC_TAN, DEC_SIN, GLON_CAR, GLAT_CAR, HPLN_TAN, HPLT_TAN,
     RA_BARE, RA_SHORT}

\* a WCS object is its wcs.wcs.ctype pair
WCSObjects == CTypes \X CTypes

\* the functions handed to register_frame_identifier: each takes a WCS and
\* returns a frame class or None
Identifiers == {"never", "helio", "any"}

Identify(ident, wcs) ==
    CASE ident = "never" -> "None"
      [] ident = "helio" ->
            IF Slice(wcs[1], 0, 4) = <<"H", "P", "L", "N">>
               /\ Slice(wcs[2], 0, 4) = <<"H", "P", "L", "T">>
            THEN "Helioprojective"
            ELSE "None"
      [] ident = "any" -> "Custom"

\* FRAME_IDENTIFIERS.append(func)
register_frame_identifier(identifiers, func) == Append(identifiers, func)

\* a reset whose assignment stays local to the function
reset_without_global(identifiers) == identifiers

\* global FRAME_IDENTIFIERS; FRAME_IDENTIFIERS = []
reset_frame_identifiers(identifiers) == <<>>

\* the built-in test with the two axes in either order
BuiltinFrameAnyOrder(xcoord, ycoord) ==
    LET ra   == <<"R", "A", "-", "-">>
        dec  == <<"D", "E", "C", "-">>
        glon == <<"G", "L", "O", "N">>
        glat == <<"G", "L", "A", "T">>
    IN  IF {xcoord, ycoord} = {ra, dec} THEN "FK5"
        ELSE IF {xcoord, ycoord} = {glon, glat} THEN "Galactic"
        ELSE "None"

\* the if / elif of get_coordinate_frame: FK5, Galactic, or None for the else
BuiltinFrame(xcoord, ycoord) ==
    IF xcoord = <<"R", "A", "-", "-">> /\ ycoord = <<"D", "E", "C", "-">>
    THEN "FK5"
    ELSE IF xcoord = <<"G", "L", "O", "N">> /\ ycoord = <<"G", "L", "A", "T">>
    THEN "Galactic"
    ELSE "None"

\* the loop without its break: every identifier is called, and a later None
\* overwrites the class
RECURSIVE IdentifierLoopNoBreak(_, _, _, _, _)
IdentifierLoopNoBreak(identifiers, wcs, i, class, called) ==
    IF i > Len(identifiers)
    THEN [class |-> class, called |-> called]
    ELSE IdentifierLoopNoBreak(identifiers, wcs, i + 1,
                               Identify(identifiers[i], wcs),
                               Append(called, identifiers[i]))

\* for ident in FRAME_IDENTIFIERS: coordinate_class = ident(wcs); break when
\* it is not None.  i is the next index, called the identifiers called so far
RECURSIVE IdentifierLoop(_, _, _, _, _)
IdentifierLoop(identifiers, wcs, i, class, called) ==
    IF i > Len(identifiers)
    THEN [class |-> class, called |-> called]
    ELSE LET c == Identify(identifiers[i], wcs)
         IN  IF c # "None"
             THEN [class |-> c, called |-> Append(called, identifiers[i])]
             ELSE IdentifierLoop(identifiers, wcs, i + 1, c,
                                 Append(called, identifiers[i]))

\* the outcome of get_coordinate_frame(wcs) with the registry as given
get_coordinate_frame(wcs, identifiers) ==
    LET xcoord  == Slice(wcs[1], 0, 4)
        ycoord  == Slice(wcs[2], 0, 4)
        builtin == BuiltinFrame(xcoord, ycoord)
        loop    == IdentifierLoop(identifiers, wcs, 1, "None", <<>>)
    IN  IF builtin # "None"
        THEN [class |-> builtin, raised |-> "none", message |-> <<>>,
              called |-> <<>>]
        ELSE IF loop.class = "None"
        THEN [class |-> "None", raised |-> "ValueError",
              message |-> <<"Frame not supported: ", wcs[1], "/", wcs[2]>>,
              called |-> loop.called]
        ELSE [class |-> loop.class, raised |-> "none", message |-> <<>>,
              called |-> loop.called]

InitFrames ==
    /\ IdleFrames
    /\ IdleSteps
    /\ IdleCtype

Register(func) ==
    /\ Len(history) < MaxOps
    /\ FRAME_IDENTIFIERS' = register_frame_identifier(FRAME_IDENTIFIERS, func)
    /\ history' = Append(history, [op |-> "register", func |-> func])
    /\ UNCHANGED <<frame_call, stepVars, ctypeVars>>

Reset ==
    /\ Len(history) < MaxOps
    /\ FRAME_IDENTIFIERS' = reset_frame_identifiers(FRAME_IDENTIFIERS)
    /\ history' = Append(history, [op |-> "reset", func |-> "None"])
    /\ UNCHANGED <<frame_call, stepVars, ctypeVars>>

\* a call of get_coordinate_frame; the record keeps the registry the call
\* read and the number of registry operations made before it
GetCoordinateFrame(wcs) ==
    /\ frame_call' =
           [op |-> "get", wcs |-> wcs, identifiers |-> FRAME_IDENTIFIERS,
            at |-> Len(history)]
           @@ get_coordinate_frame(wcs, FRAME_IDENTIFIERS)
    /\ UNCHANGED <<FRAME_IDENTIFIERS, history, stepVars, ctypeVars>>

NextFrames ==
    \/ \E func \in Identifiers : Register(func)
    \/ Reset
    \/ \E wcs \in WCSObjects : GetCoordinateFrame(wcs)

SpecFrames == InitFrames /\ [][NextFrames]_vars

----------------------------------------------------------------------------
(* Properties of the registry and get_coordinate_frame *)

\* the first four characters of s are the four characters of w
StartsWith(s, w) == Len(s) >= 4 /\ \A i \in 1..4 : s[i] = w[i]

IsEquatorial(wcs) ==
    StartsWith(wcs[1], <<"R", "A", "-", "-">>) /\ StartsWith(wcs[2], <<"D", "E", "C", "-">>)

IsGalactic(wcs) ==
    StartsWith(wcs[1], <<"G", "L", "O", "N">>) /\ StartsWith(wcs[2], <<"G", "L", "A", "T">>)

\* positions of the identifiers that would answer a WCS with a class
Answering(identifiers, wcs) ==
    {i \in 1..Len(identifiers) : Identify(identifiers[i], wcs) # "None"}

Least(S) == CHOOSE i \in S : \A j \in S : i <= j

\* C1: for a ctype pair that is neither RA--/DEC- nor GLON/GLAT, the
\* identifiers are called in registration order; the result is that of the
\* first one that answers, none after it is called; with no answer (or an
\* empty registry) ValueError "Frame not supported: <ctype0>/<ctype1>" is
\* raised with the two full ctype strings.
C1_RegistryInOrder ==
    frame_call.op = "get" /\ ~IsEquatorial(frame_call.wcs) /\ ~IsGalactic(frame_call.wcs) =>
        LET ids == frame_call.identifiers
            w   == frame_call.wcs
            ans == Answering(ids, w)
        IN  IF ans = {}
            THEN /\ frame_call.called = ids
                 /\ frame_call.raised = "ValueError"
                 /\ frame_call.message = <<"Frame not supported: ", w[1], "/", w[2]>>
            ELSE /\ frame_call.called = SubSeq(ids, 1, Least(ans))
                 /\ frame_call.raised = "none"
                 /\ frame_call.class = Identify(ids[Least(ans)], w)

\* the second of three identifiers answers; the third is not called
C1_Witness ==
    /\ frame_call.op = "get"
    /\ frame_call.wcs = <<HPLN_TAN, HPLT_TAN>>
    /\ frame_call.identifiers = <<"never", "helio", "any">>
    /\ frame_call.called = <<"never", "helio">>
    /\ frame_call.class = "Helioprojective"

\* the functions registered since the last reset in a list of operations
RECURSIVE SinceReset(_)
SinceReset(ops) ==
    IF ops = <<>> THEN <<>>
    ELSE LET last == ops[Len(ops)]
             rest == SubSeq(ops, 1, Len(ops) - 1)
         IN  IF last.op = "reset" THEN <<>>
             ELSE Append(SinceReset(rest), last.func)

\* C2: the registry that get_coordinate_frame consults is the list of the
\* functions registered since the most recent reset, in order, duplicates
\* kept; right after a reset an unrecognized pair raises ValueError, and a
\* function registered after a reset is consulted by the next call.
C2_RegistryIsSinceReset ==
    /\ FRAME_IDENTIFIERS = SinceReset(history)
    /\ frame_call.op = "get" =>
           LET ops  == SubSeq(history, 1, frame_call.at)
               seen == SinceReset(ops)
               w    == frame_call.wcs
               builtin == IsEquatorial(w) \/ IsGalactic(w)
           IN  /\ frame_call.identifiers = seen
               /\ ~builtin /\ Answering(seen, w) = {} =>
                      frame_call.raised = "ValueError" /\ frame_call.called = seen
               /\ ~builtin /\ Answering(seen, w) # {} =>
                      /\ frame_call.raised = "none"
                      /\ frame_call.class = Identify(seen[Least(Answering(seen, w))], w)
               /\ ops # <<>> /\ ops[Len(ops)].op = "reset" /\ ~builtin =>
                      frame_call.raised = "ValueError" /\ frame_call.called = <<>>
               /\ ops # <<>> /\ ops[Len(ops)].op = "register" =>
                      /\ seen # <<>>
                      /\ seen[Len(seen)] = ops[Len(ops)].func

\* registered, reset, registered again: only the last registration answers
C2_Witness ==
    /\ history = <<[op |-> "register", func |-> "any"],
                   [op |-> "reset", func |-> "None"],
                   [op |-> "register", func |-> "helio"]>>
    /\ frame_call.op = "get"
    /\ frame_call.at = 3
    /\ frame_call.wcs = <<HPLN_TAN, HPLT_TAN>>
    /\ frame_call.called = <<"helio">>
    /\ frame_call.class = "Helioprojective"

\* C3: whatever the registry holds, a pair whose first four characters are
\* RA--, DEC- in that order gives FK5 and GLON, GLAT in that order gives
\* Galactic, with no identifier called and nothing raised; the pair in the
\* other axis order is not built in.
C3_BuiltinFirst ==
    frame_call.op = "get" =>
        /\ IsEquatorial(frame_call.wcs) =>
               /\ frame_call.class = "FK5"
               /\ frame_call.called = <<>>
               /\ frame_call.raised = "none"
        /\ IsGalactic(frame_call.wcs) =>
               /\ frame_call.class = "Galactic"
               /\ frame_call.called = <<>>
               /\ frame_call.raised = "none"
        /\ frame_call.wcs = <<GLON_CAR, GLAT_CAR>> => frame_call.class = "Galactic"
        /\ ~IsEquatorial(frame_call.wcs) /\ ~IsGalactic(frame_call.wcs) =>
               /\ frame_call.identifiers = <<>> => frame_call.raised = "ValueError"
               /\ frame_call.identifiers # <<>> => frame_call.called # <<>>
        /\ frame_call.wcs = <<DEC_TAN, RA_TAN>> /\ frame_call.identifiers = <<>> =>
               frame_call.raised = "ValueError"

\* GLON-CAR / GLAT-CAR with an identifier registered that answers every WCS
C3_Witness ==
    /\ frame_call.op = "get"
    /\ frame_call.wcs = <<GLON_CAR, GLAT_CAR>>
    /\ frame_call.identifiers = <<"any">>
    /\ frame_call.class = "Galactic"
    /\ frame_call.called = <<>>

----------------------------------------------------------------------------
(* coord_type_from_ctype *)

\* the branch for HPLN returning no wrap angle
coord_type_without_wrap(s) ==
    IF Slice(s, 0, 4) \in {<<"R", "A", "-", "-">>} \/ Slice(s, 1, 4) = <<"L", "O", "N">>
    THEN [type |-> "longitude", wrap |-> "None"]
    ELSE IF Slice(s, 0, 4) \in {<<"H", "P", "L", "N">>}
    THEN [type |-> "longitude", wrap |-> "None"]
    ELSE IF Slice(s, 0, 4) \in {<<"D", "E", "C", "-">>, <<"H", "P", "L", "T">>}
            \/ Slice(s, 1, 4) = <<"L", "A", "T">>
    THEN [type |-> "latitude", wrap |-> "None"]
    ELSE [type |-> "scalar", wrap |-> "None"]

coord_type_from_ctype(s) ==
    IF Slice(s, 0, 4) \in {<<"R", "A", "-", "-">>} \/ Slice(s, 1, 4) = <<"L", "O", "N">>
    THEN [type |-> "longitude", wrap |-> "None"]
    ELSE IF Slice(s, 0, 4) \in {<<"H", "P", "L", "N">>}
    THEN [type |-> "longitude", wrap |-> "180"]
    ELSE IF Slice(s, 0, 4) \in {<<"D", "E", "C", "-">>, <<"H", "P", "L", "T">>}
            \/ Slice(s, 1, 4) = <<"L", "A", "T">>
    THEN [type |-> "latitude", wrap |-> "None"]
    ELSE [type |-> "scalar", wrap |-> "None"]

\* the characters of the ctype strings
Alphabet == {"R", "A", "-", "D", "E", "C", "H", "P", "L", "N", "T", "O", "G"}

\* the projection code that ends a full ctype, as in RA---TAN
Projection == <<"-", "T", "A", "N">>

ShortStrings == UNION {[1..k -> Alphabet] : k \in 0..MaxLen}

CtypeStrings == ShortStrings \cup {s \o Projection : s \in ShortStrings}

InitCtype ==
    /\ ctype \in CtypeStrings
    /\ ctype_out = NoCoordType
    /\ IdleSteps
    /\ IdleFrames

CallCoordType ==
    /\ ctype_out' = coord_type_from_ctype(ctype)
    /\ UNCHANGED <<ctype, stepVars, frameVars>>

NextCtype == CallCoordType

SpecCtype == InitCtype /\ [][NextCtype]_vars

\* characters 1..3 (0-based) of s are the three characters of w
MiddleIs(s, w) == Len(s) >= 4 /\ \A i \in 1..3 : s[i + 1] = w[i]

\* C8: coord_type_from_ctype classifies every string: longitude for RA-- or
\* ?LON, longitude with wrap 180 for HPLN, latitude for DEC-, HPLT or ?LAT,
\* scalar for every other string, short ones included; only HPLN has a wrap.
C8_CoordTypeTotal ==
    ctype_out # NoCoordType =>
        LET ra   == StartsWith(ctype, <<"R", "A", "-", "-">>)
            lon  == MiddleIs(ctype, <<"L", "O", "N">>)
            hpln == StartsWith(ctype, <<"H", "P", "L", "N">>)
            dec  == StartsWith(ctype, <<"D", "E", "C", "-">>)
            hplt == StartsWith(ctype, <<"H", "P", "L", "T">>)
            lat  == MiddleIs(ctype, <<"L", "A", "T">>)
        IN  /\ ra \/ lon => ctype_out = [type |-> "longitude", wrap |-> "None"]
            /\ hpln => ctype_out = [type |-> "longitude", wrap |-> "180"]
            /\ dec \/ hplt \/ lat => ctype_out = [type |-> "latitude", wrap |-> "None"]
            /\ ~(ra \/ lon \/ hpln \/ dec \/ hplt \/ lat) =>
                   ctype_out = [type |-> "scalar", wrap |-> "None"]
            /\ Len(ctype) < 4 => ctype_out.type = "scalar"
            /\ ctype_out.wrap # "None" <=> hpln

\* HPLN-TAN is a longitude that wraps at 180
C8_Witness ==
    /\ ctype = <<"H", "P", "L", "N", "-", "T", "A", "N">>
    /\ ctype_out = [type |-> "longitude", wrap |-> "180"]

====
